---- MODULE Spec2Model ----
(***************************************************************************)
(* Model of package optional (src/optional.go): the generic Optional[T]    *)
(* container, its accessors, combinators and its JSON (de)serialization.   *)
(*                                                                         *)
(* One Optional variable `o` of a fixed element type T is operated on by   *)
(* every exported function and method.  The element types modelled are     *)
(* int, string, *string, chan int and any.  Byte slices and strings are    *)
(* sequences of one-character tokens; encoding/json and fmt's %v are       *)
(* modelled by what they compute on those sequences.                       *)
(***************************************************************************)
EXTENDS Integers, Sequences, FiniteSets, TLC

\* ------------------------------------------------------------------ bounds
\* Largest int offered as an input value (the smallest is MinInt).
MaxInt == 2
\* Longest string offered as an input value.
MaxStrLen == 1
\* Most string objects on the heap (targets of *string), the caller's one included.
MaxHeap == 2

MinInt == 0 - 1

\* ------------------------------------------------------------------ values
\* The element types T the model instantiates Optional[T] with.
Types == {"int", "string", "ptr", "chan", "any"}

\* A Go value of one of the element types: t is its type, n the number of an
\* int or the address held by a *string or a chan int (0 is nil), s the bytes
\* of a string.  An interface value (any) has d, the type of the value it
\* holds ("" for the nil interface), with that value's n and s; every other
\* value has d = "".
IntV(n) == [t |-> "int", n |-> n, s |-> <<>>, d |-> ""]
StrV(s) == [t |-> "string", n |-> 0, s |-> s, d |-> ""]
PtrV(a) == [t |-> "ptr", n |-> a, s |-> <<>>, d |-> ""]
ChanV(a) == [t |-> "chan", n |-> a, s |-> <<>>, d |-> ""]
\* A float64 of integral value n: what encoding/json decodes a JSON number
\* to when the destination is an interface.
FloatV(n) == [t |-> "float64", n |-> n, s |-> <<>>, d |-> ""]
\* The interface value any(dv), and the value an interface holds.
AnyV(dv) == [t |-> "any", n |-> dv.n, s |-> dv.s, d |-> dv.t]
Dyn(v) == [t |-> v.d, n |-> v.n, s |-> v.s, d |-> ""]

\* The zero value of type t: 0, "", the nil pointer, the nil channel or the
\* nil interface.
Zero(t) == [t |-> t, n |-> 0, s |-> <<>>, d |-> ""]

\* Bytes of the model's strings.  BadByte is a byte that is not valid UTF-8
\* (0xff); Replacement is the rune U+FFFD as its UTF-8 bytes.  The strings a
\* caller passes in are made of Alphabet: a byte JSON must escape and a byte
\* JSON cannot carry.  The letter a comes in through TestInputs.
QuoteCh == "\""
BackslashCh == "\\"
BadByte == "xFF"
Replacement == "uFFFD"
Alphabet == {QuoteCh, BadByte}

\* All sequences over S of length at most n.
RECURSIVE SeqsUpTo(_, _)
SeqsUpTo(S, n) ==
    IF n = 0 THEN {<<>>}
    ELSE LET shorter == SeqsUpTo(S, n - 1)
         IN shorter \cup {Append(q, c) : q \in {x \in shorter : Len(x) = n - 1}, c \in S}

\* The values of type t a caller can pass in, h being the heap of strings:
\* a *string is nil or the address of a string of the heap, a chan int is
\* nil or the one channel made, an any is nil, the int 1 or the string "1".
Values(t, h) ==
    CASE t = "int" -> {IntV(n) : n \in MinInt..MaxInt}
      [] t = "string" -> {StrV(s) : s \in SeqsUpTo(Alphabet, MaxStrLen)}
      [] t = "ptr" -> {PtrV(a) : a \in 0..Len(h)}
      [] t = "any" -> {Zero("any"), AnyV(IntV(1)), AnyV(StrV(<<"1">>))}
      [] OTHER -> {ChanV(0), ChanV(1)}

\* ------------------------------------------------------------ fmt and json
DigitChars == <<"0", "1", "2", "3", "4", "5", "6", "7", "8", "9">>

RECURSIVE Digits(_)
Digits(n) == IF n < 10 THEN <<DigitChars[n + 1]>>
             ELSE Digits(n \div 10) \o <<DigitChars[(n % 10) + 1]>>

\* strconv-style decimal text of an int.
Itoa(n) == IF n < 0 THEN <<"-">> \o Digits(0 - n) ELSE Digits(n)

\* fmt.Sprintf("%v", v): an int prints its decimal digits, a string its
\* bytes, a float64 of integral value its decimal digits, a pointer or a
\* channel its address (nil prints <nil>), an interface the value it holds
\* (the nil interface prints <nil>).
Sprintv(v) ==
    LET plain(x) ==
            CASE x.t \in {"int", "float64"} -> Itoa(x.n)
              [] x.t = "string" -> x.s
              [] OTHER -> IF x.n = 0 THEN <<"<", "n", "i", "l", ">">>
                          ELSE <<"0", "x">> \o Digits(x.n)
    IN IF v.t = "any" /\ v.d # "" THEN plain(Dyn(v)) ELSE plain(v)

NullLit == <<"n", "u", "l", "l">>

\* The JSON escape of one byte of a string: quote and backslash are
\* escaped, an invalid UTF-8 byte is written as the escape of U+FFFD.
EscapeChar(c) ==
    IF c = QuoteCh THEN <<BackslashCh, QuoteCh>>
    ELSE IF c = BackslashCh THEN <<BackslashCh, BackslashCh>>
    ELSE IF c = BadByte THEN <<BackslashCh, "u", "f", "f", "f", "d">>
    ELSE <<c>>

RECURSIVE EscapeString(_)
EscapeString(s) == IF s = <<>> THEN <<>>
                   ELSE EscapeChar(Head(s)) \o EscapeString(Tail(s))

JsonString(s) == <<QuoteCh>> \o EscapeString(s) \o <<QuoteCh>>

\* json.Marshal(v) for a bare value v: [out, err].  A nil pointer encodes
\* as null, another pointer as the string it points to; a channel, nil or
\* not, has no encoding: nil bytes and an UnsupportedTypeError.  An
\* interface encodes as the value it holds, the nil interface as null.
JsonMarshal(v, h) ==
    LET x == IF v.t = "any" /\ v.d # "" THEN Dyn(v) ELSE v
    IN CASE x.t \in {"int", "float64"} -> [out |-> Itoa(x.n), err |-> "nil"]
         [] x.t = "string" -> [out |-> JsonString(x.s), err |-> "nil"]
         [] x.t = "ptr" -> IF x.n = 0 THEN [out |-> NullLit, err |-> "nil"]
                           ELSE [out |-> JsonString(h[x.n]), err |-> "nil"]
         [] x.t = "any" -> [out |-> NullLit, err |-> "nil"]
         [] OTHER -> [out |-> <<>>, err |-> "UnsupportedTypeError"]

IsDigit(c) == \E i \in 1..10 : DigitChars[i] = c
DigitVal(c) == (CHOOSE i \in 1..10 : DigitChars[i] = c) - 1

RECURSIVE DigitsVal(_)
DigitsVal(d) == IF d = <<>> THEN 0
                ELSE 10 * DigitsVal(SubSeq(d, 1, Len(d) - 1)) + DigitVal(d[Len(d)])

\* A JSON integer literal: an optional minus, then 0 or a digit string
\* without a leading zero.
IsJsonInt(data) ==
    LET d == IF data # <<>> /\ Head(data) = "-" THEN Tail(data) ELSE data
    IN /\ d # <<>>
       /\ \A i \in 1..Len(d) : IsDigit(d[i])
       /\ Len(d) > 1 => d[1] # "0"

JsonIntVal(data) ==
    IF Head(data) = "-" THEN 0 - DigitsVal(Tail(data)) ELSE DigitsVal(data)

\* The body of a JSON string literal (between the quotes) decoded:
\* [ok, s].  A raw quote or a dangling or unknown escape is a syntax error;
\* a raw invalid UTF-8 byte decodes to U+FFFD.
RECURSIVE Unquote(_)
Unquote(b) ==
    IF b = <<>> THEN [ok |-> TRUE, s |-> <<>>]
    ELSE IF Head(b) = QuoteCh THEN [ok |-> FALSE, s |-> <<>>]
    ELSE IF Head(b) = BackslashCh THEN
        IF Len(b) >= 2 /\ b[2] \in {QuoteCh, BackslashCh} THEN
            LET r == Unquote(SubSeq(b, 3, Len(b)))
            IN [ok |-> r.ok, s |-> <<b[2]>> \o r.s]
        ELSE IF Len(b) >= 6 /\ SubSeq(b, 2, 6) = <<"u", "f", "f", "f", "d">> THEN
            LET r == Unquote(SubSeq(b, 7, Len(b)))
            IN [ok |-> r.ok, s |-> <<Replacement>> \o r.s]
        ELSE [ok |-> FALSE, s |-> <<>>]
    ELSE LET r == Unquote(Tail(b))
         IN [ok |-> r.ok,
             s |-> <<(IF Head(b) = BadByte THEN Replacement ELSE Head(b))>> \o r.s]

\* What kind of JSON value the bytes are: "null", "number", "string", or
\* "invalid" when they are no JSON value.
JsonKind(data) ==
    IF data = NullLit THEN "null"
    ELSE IF IsJsonInt(data) THEN "number"
    ELSE IF /\ Len(data) >= 2
            /\ Head(data) = QuoteCh
            /\ data[Len(data)] = QuoteCh
            /\ Unquote(SubSeq(data, 2, Len(data) - 1)).ok THEN "string"
    ELSE "invalid"

\* json.Unmarshal(data, &dst) where dst currently holds v: [err, value,
\* heap].  Bytes that are no JSON value are a SyntaxError; a JSON value of
\* the wrong shape for the type is an UnmarshalTypeError; null leaves dst as
\* it was.  Decoding a string through a nil *string allocates the string,
\* through a non-nil one it overwrites the string pointed to.  No JSON value
\* but null decodes into a channel.  Into a nil interface a number decodes
\* as a float64 and a string as a string.  On an error dst keeps v (an
\* allocation made before a type error is unreachable).
JsonUnmarshal(data, v, h) ==
    LET kind == JsonKind(data)
        fail(e) == [err |-> e, value |-> v, heap |-> h]
    IN CASE kind = "invalid" -> fail("SyntaxError")
         [] kind = "null" -> [err |-> "nil", value |-> v, heap |-> h]
         [] kind = "number" ->
              CASE v.t = "int" ->
                     [err |-> "nil", value |-> IntV(JsonIntVal(data)), heap |-> h]
                [] v.t = "any" ->
                     [err |-> "nil", value |-> AnyV(FloatV(JsonIntVal(data))),
                      heap |-> h]
                [] OTHER -> fail("UnmarshalTypeError")
         [] OTHER ->
              LET s == Unquote(SubSeq(data, 2, Len(data) - 1)).s
              IN CASE v.t = "string" -> [err |-> "nil", value |-> StrV(s), heap |-> h]
                   [] v.t = "any" -> [err |-> "nil", value |-> AnyV(StrV(s)), heap |-> h]
                   [] v.t \in {"int", "chan"} -> fail("UnmarshalTypeError")
                   [] OTHER ->
                        IF v.n = 0
                        THEN [err |-> "nil", value |-> PtrV(Len(h) + 1),
                              heap |-> Append(h, s)]
                        ELSE [err |-> "nil", value |-> v,
                              heap |-> [h EXCEPT ![v.n] = s]]

\* ------------------------------------------------------- the Optional type
\* Optional[T]: the fields value and present.  The element type T of an
\* Optional is the type of its value field.
ElemType(opt) == opt.value.t

Some(v) == [value |-> v, present |-> TRUE]

None(t) == [value |-> Zero(t), present |-> FALSE]

\* A *T argument: nil, or pointing to a variable that holds target.
NilPtr(t) == [nil |-> TRUE, target |-> Zero(t)]
PtrTo(v) == [nil |-> FALSE, target |-> v]

FromPointer(ptr) == IF ptr.nil THEN None(ptr.target.t) ELSE Some(ptr.target)

\* What a call leaves behind: self is the receiver after the call, ret the
\* Optional returned, val the T returned, flag the bool returned (for
\* ToPointer: whether the pointer is non-nil, val being what it points to
\* and ref the variable it points to), out and err the ([]byte, error) or
\* the string returned, panicked and
\* panicVal the panic raised, calls the callbacks invoked, in order, each
\* with its arguments.
NoOpt == None("int")
NoVal == Zero("int")
Outcome(self) ==
    [self |-> self, ret |-> NoOpt, val |-> NoVal, flag |-> FALSE, ref |-> "",
     out |-> <<>>, err |-> "nil", panicked |-> FALSE, panicVal |-> "",
     calls |-> <<>>]

Call(cb, args) == [cb |-> cb, args |-> args]

\* ------------------------------------------------------- callbacks offered
\* func(T) U
Mappers(t) ==
    CASE t = "int" -> {"double", "itoa"}
      [] t = "string" -> {"len", "exclaim"}
      [] t = "ptr" -> {"deref", "isNil"}
      [] t = "any" -> {"text"}
      [] OTHER -> {"isNil"}

MapperResultType(f) ==
    CASE f \in {"double", "len", "isNil"} -> "int"
      [] OTHER -> "string"

ApplyMapper(f, v, h) ==
    CASE f = "double" -> IntV(v.n * 2)
      [] f = "itoa" -> StrV(Itoa(v.n))
      [] f = "len" -> IntV(Len(v.s))
      [] f = "exclaim" -> StrV(Append(v.s, "a"))
      [] f = "text" -> StrV(Sprintv(v))
      [] f = "deref" -> IF v.n = 0 THEN StrV(<<>>) ELSE StrV(h[v.n])
      [] OTHER -> IF v.n = 0 THEN IntV(1) ELSE IntV(0)

\* func(T) Optional[U]
FlatMappers(t) ==
    CASE t = "int" -> {"positive", "someItoa"}
      [] t = "string" -> {"nonEmpty"}
      [] t = "ptr" -> {"fromPointer"}
      [] t = "any" -> {"someText"}
      [] OTHER -> {"nonNil"}

FlatMapperResultType(f) ==
    CASE f = "positive" -> "int"
      [] f = "nonNil" -> "chan"
      [] OTHER -> "string"

ApplyFlatMapper(f, v, h) ==
    CASE f = "positive" -> IF v.n > 0 THEN Some(v) ELSE None("int")
      [] f = "someItoa" -> Some(StrV(Itoa(v.n)))
      [] f = "nonEmpty" -> IF v.s # <<>> THEN Some(v) ELSE None("string")
      [] f = "nonNil" -> IF v.n # 0 THEN Some(v) ELSE None("chan")
      [] f = "someText" -> Some(StrV(Sprintv(v)))
      [] OTHER -> IF v.n = 0 THEN None("string") ELSE Some(StrV(h[v.n]))

\* func(T) bool
Predicates == {"always", "never", "nonZero"}

ApplyPredicate(p, v) ==
    CASE p = "always" -> TRUE
      [] p = "never" -> FALSE
      [] OTHER -> v # Zero(v.t)

\* func(T, U) R
Combiners == {"join", "second"}

CombinerResultType(c, t, u) == IF c = "join" THEN "string" ELSE u

ApplyCombiner(c, a, b) ==
    IF c = "join" THEN StrV(Sprintv(a) \o <<"-">> \o Sprintv(b)) ELSE b

\* panic messages a caller passes to OrElsePanic
Messages == {"", "boom"}

\* ------------------------------------------------- methods and functions
\* Each models one function of src/optional.go on the receiver opt (the
\* pointer receiver's target) and gives the Outcome of the call.

\* ToPointer that returns the address of a copy: v := o.value; return &v.
ToPointer_Copy(opt) ==
    IF ~opt.present THEN Outcome(opt)
    ELSE [Outcome(opt) EXCEPT !.flag = TRUE, !.val = opt.value, !.ref = "v"]

\* &o.value is the address of the receiver's own value field.
ToPointer(opt) ==
    IF ~opt.present THEN Outcome(opt)
    ELSE [Outcome(opt) EXCEPT !.flag = TRUE, !.val = opt.value, !.ref = "o.value"]

IsPresent(opt) == [Outcome(opt) EXCEPT !.flag = opt.present]

IsEmpty(opt) == [Outcome(opt) EXCEPT !.flag = ~opt.present]

GetPanicMsg == "called Get() on empty Optional"

\* Get without the presence check: the zero value comes back, no panic.
Get_NoCheck(opt) == [Outcome(opt) EXCEPT !.val = opt.value]

Get(opt) ==
    IF ~opt.present
    THEN [Outcome(opt) EXCEPT !.panicked = TRUE, !.panicVal = GetPanicMsg]
    ELSE [Outcome(opt) EXCEPT !.val = opt.value]

\* Equals that compares the text of the value fields before it looks at
\* the present flags.
Equals_ValueFirst(opt, other) ==
    IF Sprintv(opt.value) # Sprintv(other.value)
    THEN [Outcome(opt) EXCEPT !.flag = FALSE]
    ELSE [Outcome(opt) EXCEPT !.flag = (opt.present = other.present)]

Equals(opt, other) ==
    IF opt.present # other.present THEN [Outcome(opt) EXCEPT !.flag = FALSE]
    ELSE IF ~opt.present THEN [Outcome(opt) EXCEPT !.flag = TRUE]
    ELSE [Outcome(opt) EXCEPT !.flag = (Sprintv(opt.value) = Sprintv(other.value))]

Or(opt, other) ==
    IF opt.present THEN [Outcome(opt) EXCEPT !.ret = opt]
    ELSE [Outcome(opt) EXCEPT !.ret = other]

OrElsePanic(opt, message) ==
    IF ~opt.present
    THEN [Outcome(opt) EXCEPT !.panicked = TRUE, !.panicVal = message]
    ELSE [Outcome(opt) EXCEPT !.val = opt.value]

OrElse(opt, defaultValue) ==
    IF opt.present THEN [Outcome(opt) EXCEPT !.val = opt.value]
    ELSE [Outcome(opt) EXCEPT !.val = defaultValue]

\* OrElseGet that computes the fallback before looking at the receiver.
OrElseGet_Eager(opt, supplied) ==
    [Outcome(opt) EXCEPT !.val = IF opt.present THEN opt.value ELSE supplied,
                         !.calls = <<Call("supplier", <<>>)>>]

\* The supplier offered returns the value supplied.
OrElseGet(opt, supplied) ==
    IF opt.present THEN [Outcome(opt) EXCEPT !.val = opt.value]
    ELSE [Outcome(opt) EXCEPT !.val = supplied,
                              !.calls = <<Call("supplier", <<>>)>>]

IfPresent(opt) ==
    IF opt.present
    THEN [Outcome(opt) EXCEPT !.calls = <<Call("consumer", <<opt.value>>)>>]
    ELSE Outcome(opt)

IfPresentOrElse(opt) ==
    IF opt.present
    THEN [Outcome(opt) EXCEPT !.calls = <<Call("consumer", <<opt.value>>)>>]
    ELSE [Outcome(opt) EXCEPT !.calls = <<Call("runnable", <<>>)>>]

\* Zip with || for &&.
Zip_Either(opt1, opt2, combiner) ==
    IF opt1.present \/ opt2.present
    THEN [Outcome(opt1) EXCEPT
            !.ret = Some(ApplyCombiner(combiner, opt1.value, opt2.value)),
            !.calls = <<Call(combiner, <<opt1.value, opt2.value>>)>>]
    ELSE [Outcome(opt1) EXCEPT
            !.ret = None(CombinerResultType(combiner, ElemType(opt1), ElemType(opt2)))]

Zip(opt1, opt2, combiner) ==
    IF opt1.present /\ opt2.present
    THEN [Outcome(opt1) EXCEPT
            !.ret = Some(ApplyCombiner(combiner, opt1.value, opt2.value)),
            !.calls = <<Call(combiner, <<opt1.value, opt2.value>>)>>]
    ELSE [Outcome(opt1) EXCEPT
            !.ret = None(CombinerResultType(combiner, ElemType(opt1), ElemType(opt2)))]

\* Map that applies mapper before the presence check.
Map_Eager(opt, mapper, h) ==
    IF opt.present
    THEN [Outcome(opt) EXCEPT !.ret = Some(ApplyMapper(mapper, opt.value, h)),
                              !.calls = <<Call(mapper, <<opt.value>>)>>]
    ELSE [Outcome(opt) EXCEPT !.ret = None(MapperResultType(mapper)),
                              !.calls = <<Call(mapper, <<opt.value>>)>>]

Map(opt, mapper, h) ==
    IF opt.present
    THEN [Outcome(opt) EXCEPT !.ret = Some(ApplyMapper(mapper, opt.value, h)),
                              !.calls = <<Call(mapper, <<opt.value>>)>>]
    ELSE [Outcome(opt) EXCEPT !.ret = None(MapperResultType(mapper))]

\* FlatMap that wraps the value field of mapper's result in Some again.
FlatMap_Rewrap(opt, mapper, h) ==
    IF opt.present
    THEN [Outcome(opt) EXCEPT
            !.ret = Some(ApplyFlatMapper(mapper, opt.value, h).value),
            !.calls = <<Call(mapper, <<opt.value>>)>>]
    ELSE [Outcome(opt) EXCEPT !.ret = None(FlatMapperResultType(mapper))]

FlatMap(opt, mapper, h) ==
    IF opt.present
    THEN [Outcome(opt) EXCEPT !.ret = ApplyFlatMapper(mapper, opt.value, h),
                              !.calls = <<Call(mapper, <<opt.value>>)>>]
    ELSE [Outcome(opt) EXCEPT !.ret = None(FlatMapperResultType(mapper))]

\* Filter with the operands of && swapped: predicate runs first.
Filter_PredicateFirst(opt, predicate) ==
    IF ApplyPredicate(predicate, opt.value) /\ opt.present
    THEN [Outcome(opt) EXCEPT !.ret = opt,
                              !.calls = <<Call(predicate, <<opt.value>>)>>]
    ELSE [Outcome(opt) EXCEPT !.ret = None(ElemType(opt)),
                              !.calls = <<Call(predicate, <<opt.value>>)>>]

\* The && of line 137 does not evaluate predicate on an absent receiver.
Filter(opt, predicate) ==
    IF opt.present
    THEN IF ApplyPredicate(predicate, opt.value)
         THEN [Outcome(opt) EXCEPT !.ret = opt,
                                   !.calls = <<Call(predicate, <<opt.value>>)>>]
         ELSE [Outcome(opt) EXCEPT !.ret = None(ElemType(opt)),
                                   !.calls = <<Call(predicate, <<opt.value>>)>>]
    ELSE [Outcome(opt) EXCEPT !.ret = None(ElemType(opt))]

String(opt) ==
    IF opt.present
    THEN [Outcome(opt) EXCEPT
            !.out = <<"S", "o", "m", "e", "(">> \o Sprintv(opt.value) \o <<")">>]
    ELSE [Outcome(opt) EXCEPT !.out = <<"N", "o", "n", "e">>]

\* MarshalJSON without the presence check: an absent Optional encodes its
\* value field.
MarshalJSON_NoCheck(opt, h) ==
    LET m == JsonMarshal(opt.value, h)
    IN [Outcome(opt) EXCEPT !.out = m.out, !.err = m.err]

MarshalJSON(opt, h) ==
    IF opt.present
    THEN LET m == JsonMarshal(opt.value, h)
         IN [Outcome(opt) EXCEPT !.out = m.out, !.err = m.err]
    ELSE [Outcome(opt) EXCEPT !.out = NullLit]

\* json.Marshal(x) of the host encoder, x being an Optional or a pointer to
\* one.  MarshalJSON has a pointer receiver, so it is in the method set of
\* *Optional[T] only: given &opt the encoder calls it, returns its bytes
\* and wraps its error in a MarshalerError; given opt, a value it cannot
\* take the address of, it encodes the struct field by field, and a struct
\* whose fields are all unexported encodes as {}.
BracesLit == <<"{", "}">>

JsonMarshalOptional(opt, mode, h) ==
    IF mode = "pointer"
    THEN LET m == MarshalJSON(opt, h)
         IN [m EXCEPT !.err = IF m.err = "nil" THEN "nil" ELSE "MarshalerError"]
    ELSE [Outcome(opt) EXCEPT !.out = BracesLit]

\* UnmarshalJSON without line 172: a decoded value is stored, present is
\* left as it was.
UnmarshalJSON_NoPresent(opt, data, h) ==
    IF data = NullLit
    THEN [out |-> Outcome([opt EXCEPT !.present = FALSE]), heap |-> h]
    ELSE LET d == JsonUnmarshal(data, Zero(ElemType(opt)), h)
         IN IF d.err # "nil"
            THEN [out |-> [Outcome(opt) EXCEPT !.err = d.err], heap |-> h]
            ELSE [out |-> Outcome([opt EXCEPT !.value = d.value]), heap |-> d.heap]

\* UnmarshalJSON that treats null as the no-op encoding/json makes of it.
UnmarshalJSON_NullNoop(opt, data, h) ==
    IF data = NullLit
    THEN [out |-> Outcome(opt), heap |-> h]
    ELSE LET d == JsonUnmarshal(data, Zero(ElemType(opt)), h)
         IN IF d.err # "nil"
            THEN [out |-> [Outcome(opt) EXCEPT !.err = d.err], heap |-> h]
            ELSE [out |-> Outcome([value |-> d.value, present |-> TRUE]),
                  heap |-> d.heap]

\* UnmarshalJSON that decodes into the target's own value field:
\* json.Unmarshal(data, &o.value).
UnmarshalJSON_InPlace(opt, data, h) ==
    IF data = NullLit
    THEN [out |-> Outcome([opt EXCEPT !.present = FALSE]), heap |-> h]
    ELSE LET d == JsonUnmarshal(data, opt.value, h)
         IN IF d.err # "nil"
            THEN [out |-> [Outcome(opt) EXCEPT !.err = d.err], heap |-> h]
            ELSE [out |-> Outcome([value |-> d.value, present |-> TRUE]),
                  heap |-> d.heap]

\* UnmarshalJSON that resets the target before decoding and drops the
\* decoder's error.
UnmarshalJSON_SwallowsError(opt, data, h) ==
    IF data = NullLit
    THEN [out |-> Outcome([opt EXCEPT !.present = FALSE]), heap |-> h]
    ELSE LET d == JsonUnmarshal(data, Zero(ElemType(opt)), h)
         IN IF d.err # "nil"
            THEN [out |-> Outcome([opt EXCEPT !.present = FALSE]), heap |-> h]
            ELSE [out |-> Outcome([value |-> d.value, present |-> TRUE]),
                  heap |-> d.heap]

\* UnmarshalJSON also gives the heap after the call: decoding into the
\* local `value` (a fresh zero T) may allocate.
UnmarshalJSON(opt, data, h) ==
    IF data = NullLit
    THEN [out |-> Outcome([opt EXCEPT !.present = FALSE]), heap |-> h]
    ELSE LET d == JsonUnmarshal(data, Zero(ElemType(opt)), h)
         IN IF d.err # "nil"
            THEN [out |-> [Outcome(opt) EXCEPT !.err = d.err], heap |-> h]
            ELSE [out |-> Outcome([value |-> d.value, present |-> TRUE]),
                  heap |-> d.heap]

\* ------------------------------------------------------------------- state
\* o        the Optional[T] variable the calls are made on
\* heap     the strings that *string values point to; address i is heap[i]
\* buf      the bytes and error the last MarshalJSON call returned, and
\*          whether the Optional it was called on was present
\* decoded  the input of the last UnmarshalJSON call on o that returned no
\*          error, since o was last assigned or written through a pointer
\* written  the value last written through a pointer ToPointer returned,
\*          since o was last assigned or deserialized into
\* last     the last call: its name, its receiver before the call (recv),
\*          its arguments and its Outcome (res); for UnmarshalJSON also
\*          whether the caller holds an Optional that a method or function
\*          of ReturnsFromInput returned in the call before (held)
VARIABLES o, heap, buf, decoded, written, last

vars == <<o, heap, buf, decoded, written, last>>

T == ElemType(o)

CallRec(op, recv, res) ==
    [op |-> op, recv |-> recv, argOpt |-> NoOpt, argVal |-> NoVal,
     argPtr |-> NilPtr("int"), fn |-> "", msg |-> "", data |-> <<>>,
     held |-> FALSE, res |-> res]

\* The Optional arguments of type t a caller can pass in.
OptArgs(t, h) == {None(t)} \cup {Some(v) : v \in Values(t, h)}

\* The *T arguments a caller can pass to FromPointer.
PtrArgs(t, h) == {NilPtr(t)} \cup {PtrTo(v) : v \in Values(t, h)}

\* The values a caller writes through a pointer: the zero value of T and
\* one other value (for a *string the address of the newest string).
WriteValues(t, h) ==
    {Zero(t)} \cup
        CASE t = "int" -> {IntV(1)}
          [] t = "string" -> {StrV(<<BadByte>>)}
          [] t = "ptr" -> {PtrV(Len(h))}
          [] t = "chan" -> {ChanV(1)}
          [] OTHER -> {AnyV(StrV(<<"1">>))}

\* Inputs offered to UnmarshalJSON besides the bytes MarshalJSON returned:
\* null, 42, "a" and the word invalid.
TestInputs ==
    {NullLit, <<"4", "2">>, JsonString(<<"a">>),
     <<"i", "n", "v", "a", "l", "i", "d">>}

NoBuf == [set |-> FALSE, present |-> FALSE, out |-> <<>>, err |-> "nil"]
NoDecoded == [set |-> FALSE, data |-> <<>>]
NoWritten == [set |-> FALSE, val |-> NoVal]

\* var o Optional[T]: the zero Optional, which is absent.  The caller has
\* one string variable, still empty, that a *string can point to.
Init ==
    /\ o \in {None(t) : t \in Types}
    /\ heap = <<<<>>>>
    /\ buf = NoBuf
    /\ decoded = NoDecoded
    /\ written = NoWritten
    /\ last = CallRec("var", NoOpt, Outcome(NoOpt))

\* A call of a method on o that takes no Optional or T argument.
Method(op, res) ==
    /\ o' = res.self
    /\ last' = CallRec(op, o, res)
    /\ UNCHANGED <<heap, buf, decoded, written>>

\* A call of a function that returns an Optional and has no receiver.
Function(op, res) ==
    /\ last' = CallRec(op, o, res)
    /\ UNCHANGED <<o, heap, buf, decoded, written>>

DoSome == \E v \in Values(T, heap) :
    /\ last' = [CallRec("Some", o, [Outcome(o) EXCEPT !.ret = Some(v)]) EXCEPT
                   !.argVal = v]
    /\ UNCHANGED <<o, heap, buf, decoded, written>>

DoNone == Function("None", [Outcome(o) EXCEPT !.ret = None(T)])

DoFromPointer == \E ptr \in PtrArgs(T, heap) :
    /\ last' = [CallRec("FromPointer", o, [Outcome(o) EXCEPT !.ret = FromPointer(ptr)])
                   EXCEPT !.argPtr = ptr]
    /\ UNCHANGED <<o, heap, buf, decoded, written>>

\* *ptr = w, ptr being the non-nil pointer just passed to FromPointer: the
\* caller's variable changes, the Optional returned is a value of its own.
\* argVal keeps what *ptr held at the call.
WriteSource == \E w \in WriteValues(T, heap) :
    /\ last.op = "FromPointer"
    /\ ~last.argPtr.nil
    /\ last' = [last EXCEPT !.op = "*ptr = w", !.argPtr = PtrTo(w),
                            !.argVal = last.argPtr.target]
    /\ UNCHANGED <<o, heap, buf, decoded, written>>

\* o = ret: the Optional the last call returned is assigned to o.
ReturnsOptional == {"Some", "None", "FromPointer", "Or", "Zip", "Map", "FlatMap", "Filter"}

\* The methods and functions that make an Optional out of an Optional.
ReturnsFromInput == {"Or", "Zip", "Map", "FlatMap", "Filter"}

\* Only values within the bounds of the inputs are stored, so that repeated
\* mapping does not grow o without limit.
Bounded(v) == v.n \in MinInt..MaxInt /\ Len(v.s) <= MaxStrLen

Store ==
    /\ last.op \in ReturnsOptional
    /\ ElemType(last.res.ret) = T
    /\ Bounded(last.res.ret.value)
    /\ o' = last.res.ret
    /\ decoded' = NoDecoded
    /\ written' = NoWritten
    /\ last' = CallRec("Store", last.res.ret, Outcome(last.res.ret))
    /\ UNCHANGED <<heap, buf>>

DoToPointer == Method("ToPointer", ToPointer(o))

\* *p = w, p being the non-nil pointer ToPointer just returned: the
\* variable p points to is assigned w.
WriteThrough == \E w \in WriteValues(T, heap) :
    LET after == IF last.res.ref = "o.value" THEN [o EXCEPT !.value = w] ELSE o
    IN /\ last.op = "ToPointer"
       /\ last.res.flag
       /\ o' = after
       /\ written' = [set |-> TRUE, val |-> w]
       /\ decoded' = NoDecoded
       /\ last' = [CallRec("*p = w", o, Outcome(after)) EXCEPT !.argVal = w]
       /\ UNCHANGED <<heap, buf>>

DoIsPresent == Method("IsPresent", IsPresent(o))

DoIsEmpty == Method("IsEmpty", IsEmpty(o))

DoGet == Method("Get", Get(o))

DoEquals == \E other \in OptArgs(T, heap) :
    /\ o' = Equals(o, other).self
    /\ last' = [CallRec("Equals", o, Equals(o, other)) EXCEPT !.argOpt = other]
    /\ UNCHANGED <<heap, buf, decoded, written>>

DoOr == \E other \in OptArgs(T, heap) :
    /\ o' = Or(o, other).self
    /\ last' = [CallRec("Or", o, Or(o, other)) EXCEPT !.argOpt = other]
    /\ UNCHANGED <<heap, buf, decoded, written>>

DoOrElsePanic == \E message \in Messages :
    /\ o' = OrElsePanic(o, message).self
    /\ last' = [CallRec("OrElsePanic", o, OrElsePanic(o, message)) EXCEPT !.msg = message]
    /\ UNCHANGED <<heap, buf, decoded, written>>

DoOrElse == \E defaultValue \in Values(T, heap) :
    /\ o' = OrElse(o, defaultValue).self
    /\ last' = [CallRec("OrElse", o, OrElse(o, defaultValue)) EXCEPT !.argVal = defaultValue]
    /\ UNCHANGED <<heap, buf, decoded, written>>

DoOrElseGet == \E supplied \in Values(T, heap) :
    /\ o' = OrElseGet(o, supplied).self
    /\ last' = [CallRec("OrElseGet", o, OrElseGet(o, supplied)) EXCEPT !.argVal = supplied]
    /\ UNCHANGED <<heap, buf, decoded, written>>

DoIfPresent == Method("IfPresent", IfPresent(o))

DoIfPresentOrElse == Method("IfPresentOrElse", IfPresentOrElse(o))

\* Zip, Map and FlatMap take their Optionals by value.
DoZip == \E opt2 \in OptArgs("int", heap), combiner \in Combiners :
    /\ last' = [CallRec("Zip", o, Zip(o, opt2, combiner)) EXCEPT
                   !.argOpt = opt2, !.fn = combiner]
    /\ UNCHANGED <<o, heap, buf, decoded, written>>

DoMap == \E mapper \in Mappers(T) :
    /\ last' = [CallRec("Map", o, Map(o, mapper, heap)) EXCEPT !.fn = mapper]
    /\ UNCHANGED <<o, heap, buf, decoded, written>>

DoFlatMap == \E mapper \in FlatMappers(T) :
    /\ last' = [CallRec("FlatMap", o, FlatMap(o, mapper, heap)) EXCEPT !.fn = mapper]
    /\ UNCHANGED <<o, heap, buf, decoded, written>>

DoFilter == \E predicate \in Predicates :
    /\ o' = Filter(o, predicate).self
    /\ last' = [CallRec("Filter", o, Filter(o, predicate)) EXCEPT !.fn = predicate]
    /\ UNCHANGED <<heap, buf, decoded, written>>

DoString == Method("String", String(o))

DoMarshalJSON ==
    LET r == MarshalJSON(o, heap)
    IN /\ o' = r.self
       /\ last' = CallRec("MarshalJSON", o, r)
       /\ buf' = [set |-> TRUE, present |-> o.present, out |-> r.out, err |-> r.err]
       /\ UNCHANGED <<heap, decoded, written>>

\* json.Marshal(o) as the example program calls it, json.Marshal(&o) as
\* the tests do.
MarshalModes == {"value", "pointer"}

DoJsonMarshal == \E mode \in MarshalModes :
    LET r == JsonMarshalOptional(o, mode, heap)
    IN /\ o' = r.self
       /\ last' = [CallRec("json.Marshal", o, r) EXCEPT !.fn = mode]
       /\ UNCHANGED <<heap, buf, decoded, written>>

DoUnmarshalJSON ==
    \E data \in TestInputs \cup (IF buf.set /\ buf.err = "nil" THEN {buf.out} ELSE {}) :
        LET r == UnmarshalJSON(o, data, heap)
        IN /\ Len(r.heap) <= MaxHeap
           /\ o' = r.out.self
           /\ heap' = r.heap
           /\ last' = [CallRec("UnmarshalJSON", o, r.out) EXCEPT
                          !.data = data, !.held = (last.op \in ReturnsFromInput)]
           /\ decoded' = IF r.out.err = "nil"
                         THEN [set |-> TRUE, data |-> data] ELSE decoded
           /\ written' = IF r.out.err = "nil" THEN NoWritten ELSE written
           /\ UNCHANGED buf

Next ==
    \/ DoSome \/ DoNone \/ DoFromPointer \/ WriteSource \/ Store
    \/ DoToPointer \/ WriteThrough \/ DoIsPresent \/ DoIsEmpty \/ DoGet \/ DoEquals
    \/ DoOr \/ DoOrElsePanic \/ DoOrElse \/ DoOrElseGet
    \/ DoIfPresent \/ DoIfPresentOrElse
    \/ DoZip \/ DoMap \/ DoFlatMap \/ DoFilter
    \/ DoString \/ DoMarshalJSON \/ DoJsonMarshal \/ DoUnmarshalJSON

Spec == Init /\ [][Next]_vars

\* ------------------------------------------------------------------ claims
\* The string a value stands for: what a non-nil *string points to, the
\* value itself otherwise.
Content(v, h) == IF v.t = "ptr" /\ v.n # 0 THEN StrV(h[v.n]) ELSE v

\* The last call was UnmarshalJSON on the bytes MarshalJSON returned.
RoundTripped ==
    /\ last.op = "UnmarshalJSON"
    /\ buf.set /\ buf.err = "nil"
    /\ last.data = buf.out

\* Those bytes came from marshalling an Optional like x, and are what
\* marshalling x produces.
MarshalledFrom(x) ==
    /\ buf.present = x.present
    /\ MarshalJSON(x, heap).err = "nil"
    /\ MarshalJSON(x, heap).out = buf.out

\* encoding/json alone carries v through: it encodes v, not as null, and
\* decodes the bytes into a fresh T as a value that prints as v does.
Lossless(v, h) ==
    LET m == JsonMarshal(v, h)
        d == JsonUnmarshal(m.out, Zero(v.t), h)
    IN /\ m.err = "nil"
       /\ m.out # NullLit
       /\ d.err = "nil"
       /\ Sprintv(d.value) = Sprintv(v)

\* C1 (as stated): unmarshalling the bytes produced by marshalling Some(v)
\* succeeds and gives an Optional that Equals(Some(v)), for every v, a nil
\* pointer included; the bytes of None[T]() give an empty Optional.
C1_RoundTripEveryValue ==
    RoundTripped =>
        /\ \A v \in Values(T, heap) :
              MarshalledFrom(Some(v)) =>
                  last.res.err = "nil" /\ Equals(o, Some(v)).flag
        /\ MarshalledFrom(None(T)) => last.res.err = "nil" /\ IsEmpty(o).flag

\* C1 (amended): unmarshalling the bytes produced by marshalling Some(v)
\* succeeds and gives an Optional that Equals(Some(v)) for every v that
\* encoding/json alone carries through; for a v that encodes as null (a nil
\* pointer) it succeeds and gives an absent Optional, which does not equal
\* Some(v); the bytes of None[T]() give an empty Optional.
C1_RoundTripLossless ==
    RoundTripped =>
        /\ \A v \in Values(T, heap) :
              MarshalledFrom(Some(v)) =>
                  /\ Lossless(v, heap) =>
                        last.res.err = "nil" /\ Equals(o, Some(v)).flag
                  /\ JsonMarshal(v, heap).out = NullLit =>
                        /\ last.res.err = "nil"
                        /\ IsEmpty(o).flag
                        /\ ~Equals(o, Some(v)).flag
        /\ MarshalledFrom(None(T)) => last.res.err = "nil" /\ IsEmpty(o).flag

\* A string that needs escaping went through MarshalJSON and UnmarshalJSON.
C1_Witness ==
    /\ RoundTripped
    /\ o.present
    /\ \E v \in Values(T, heap) :
          /\ v.t = "string" /\ v.s = <<QuoteCh>>
          /\ MarshalledFrom(Some(v))
          /\ Lossless(v, heap)

\* C2: MarshalJSON on a present Optional returns the bytes and the error
\* json.Marshal returns for the bare value, on an absent one the bytes null
\* and no error; the Optional is as it was before the call.
C2_MarshalJSON ==
    last.op = "MarshalJSON" =>
        /\ last.recv.present =>
              /\ last.res.out = JsonMarshal(last.recv.value, heap).out
              /\ last.res.err = JsonMarshal(last.recv.value, heap).err
        /\ ~last.recv.present =>
              last.res.out = NullLit /\ last.res.err = "nil"
        /\ last.res.self = last.recv
        /\ o = last.recv

\* MarshalJSON ran on an absent Optional whose value field is not zero.
C2_Witness ==
    /\ last.op = "MarshalJSON"
    /\ ~last.recv.present
    /\ last.recv.value # Zero(T)

\* The calls that read o: every method and function but UnmarshalJSON.
ReadOps ==
    {"ToPointer", "IsPresent", "IsEmpty", "Get", "Equals", "Or", "OrElsePanic",
     "OrElse", "OrElseGet", "IfPresent", "IfPresentOrElse", "Zip", "Map",
     "FlatMap", "Filter", "String", "MarshalJSON"}

\* The call c made again, on the receiver opt.
Replay(c, opt, h) ==
    CASE c.op = "ToPointer" -> ToPointer(opt)
      [] c.op = "IsPresent" -> IsPresent(opt)
      [] c.op = "IsEmpty" -> IsEmpty(opt)
      [] c.op = "Get" -> Get(opt)
      [] c.op = "Equals" -> Equals(opt, c.argOpt)
      [] c.op = "Or" -> Or(opt, c.argOpt)
      [] c.op = "OrElsePanic" -> OrElsePanic(opt, c.msg)
      [] c.op = "OrElse" -> OrElse(opt, c.argVal)
      [] c.op = "OrElseGet" -> OrElseGet(opt, c.argVal)
      [] c.op = "IfPresent" -> IfPresent(opt)
      [] c.op = "IfPresentOrElse" -> IfPresentOrElse(opt)
      [] c.op = "Zip" -> Zip(opt, c.argOpt, c.fn)
      [] c.op = "Map" -> Map(opt, c.fn, h)
      [] c.op = "FlatMap" -> FlatMap(opt, c.fn, h)
      [] c.op = "Filter" -> Filter(opt, c.fn)
      [] c.op = "String" -> String(opt)
      [] OTHER -> MarshalJSON(opt, h)

\* What the caller gets to see of an Outcome.
Seen(res) == [res EXCEPT !.self = NoOpt]

\* The T that json.Unmarshal decodes data into.
DecodedValue(data, t) ==
    LET d == JsonUnmarshal(data, Zero(t), <<>>)
    IN Content(d.value, d.heap)

\* C3: whatever o held before, and whatever calls failed or read o since,
\* after the last UnmarshalJSON that returned no error o is absent if its
\* input was null, and then every call on o gives what it gives on
\* None[T]() (the value held before is not observed); o is present with
\* Get() the decoded value if its input was anything else.
C3_LastUnmarshalDecides ==
    decoded.set =>
        IF decoded.data = NullLit
        THEN /\ ~IsPresent(o).flag
             /\ last.op \in ReadOps =>
                   Seen(last.res) = Seen(Replay(last, None(T), heap))
        ELSE /\ IsPresent(o).flag
             /\ ~Get(o).panicked
             /\ Content(Get(o).val, heap) = DecodedValue(decoded.data, T)

\* null was unmarshalled into an Optional that held a value, and OrElse
\* was called on it afterwards.
C3_Witness ==
    /\ decoded.set
    /\ decoded.data = NullLit
    /\ o.value # Zero(T)
    /\ last.op = "OrElse"

\* C4: when json.Unmarshal rejects the input for T, UnmarshalJSON returns
\* that very error, and o is as it was before the call.
C4_UnmarshalError ==
    (/\ last.op = "UnmarshalJSON"
     /\ last.data # NullLit
     /\ JsonUnmarshal(last.data, Zero(ElemType(last.recv)), heap).err # "nil")
    => /\ last.res.err = JsonUnmarshal(last.data, Zero(ElemType(last.recv)), heap).err
       /\ last.res.self = last.recv
       /\ o = last.recv

\* A JSON string was rejected by a present Optional[int].
C4_Witness ==
    /\ last.op = "UnmarshalJSON"
    /\ last.res.err = "UnmarshalTypeError"
    /\ last.recv.present
    /\ T = "int"

\* C5: IsPresent() is !IsEmpty() on every o; Get and OrElsePanic return
\* the value held when the receiver is present and panic otherwise,
\* OrElsePanic with the caller's message; Some(v) is present with Get() v,
\* None[T]() is empty and its Get() panics.
C5_Accessors ==
    /\ IsPresent(o).flag = ~IsEmpty(o).flag
    /\ last.op = "IsPresent" => last.res.flag = ~IsEmpty(last.recv).flag
    /\ last.op = "IsEmpty" => last.res.flag = ~IsPresent(last.recv).flag
    /\ last.op = "Get" =>
          IF IsPresent(last.recv).flag
          THEN ~last.res.panicked /\ last.res.val = last.recv.value
          ELSE last.res.panicked
    /\ last.op = "OrElsePanic" =>
          IF IsPresent(last.recv).flag
          THEN ~last.res.panicked /\ last.res.val = last.recv.value
          ELSE last.res.panicked /\ last.res.panicVal = last.msg
    /\ last.op = "Some" =>
          /\ IsPresent(last.res.ret).flag
          /\ ~Get(last.res.ret).panicked
          /\ Get(last.res.ret).val = last.argVal
    /\ last.op = "None" =>
          /\ ~IsPresent(last.res.ret).flag
          /\ IsEmpty(last.res.ret).flag
          /\ Get(last.res.ret).panicked

\* Get was called on an Optional made absent by unmarshalling null over a
\* value.
C5_Witness ==
    /\ last.op = "Get"
    /\ last.res.panicked
    /\ last.recv.value # Zero(T)

\* C6: Map of a present Optional holding v is present with mapper(v), and
\* mapper was called once, with v; Map of an absent one is absent, and
\* mapper was not called.
C6_Map ==
    last.op = "Map" =>
        IF last.recv.present
        THEN /\ last.res.ret = Some(ApplyMapper(last.fn, last.recv.value, heap))
             /\ last.res.calls = <<Call(last.fn, <<last.recv.value>>)>>
        ELSE /\ ~IsPresent(last.res.ret).flag
             /\ last.res.calls = <<>>

\* A present Optional[int] was mapped to a different number.
C6_Witness ==
    /\ last.op = "Map"
    /\ last.recv.present
    /\ last.fn = "double"
    /\ last.res.ret.present
    /\ last.res.ret.value # last.recv.value

\* C7: FlatMap of a present Optional holding v is mapper(v) itself, present
\* or absent as mapper(v) is, and mapper was called once; FlatMap of an
\* absent one is absent, and mapper was not called.
C7_FlatMap ==
    last.op = "FlatMap" =>
        IF last.recv.present
        THEN /\ last.res.ret = ApplyFlatMapper(last.fn, last.recv.value, heap)
             /\ last.res.calls = <<Call(last.fn, <<last.recv.value>>)>>
        ELSE /\ ~IsPresent(last.res.ret).flag
             /\ last.res.calls = <<>>

\* mapper returned an absent Optional for a present receiver.
C7_Witness ==
    /\ last.op = "FlatMap"
    /\ last.recv.present
    /\ ~last.res.ret.present

\* C8: Zip is present iff both Optionals are, and then holds
\* combiner(a.value, b.value); combiner was called once if both are
\* present and not at all otherwise.
C8_Zip ==
    last.op = "Zip" =>
        /\ IsPresent(last.res.ret).flag = (last.recv.present /\ last.argOpt.present)
        /\ IF last.recv.present /\ last.argOpt.present
           THEN /\ last.res.ret.value =
                     ApplyCombiner(last.fn, last.recv.value, last.argOpt.value)
                /\ last.res.calls =
                     <<Call(last.fn, <<last.recv.value, last.argOpt.value>>)>>
           ELSE last.res.calls = <<>>

\* Two present Optionals were joined.
C8_Witness ==
    /\ last.op = "Zip"
    /\ last.recv.present
    /\ last.argOpt.present
    /\ last.fn = "join"
    /\ last.res.ret.present

\* C9: Filter of a present receiver whose value passes predicate is
\* present with that value; of a present receiver whose value fails it, or
\* of an absent one, it is absent; predicate was called once on a present
\* receiver and not at all on an absent one; the receiver is as it was.
C9_Filter ==
    last.op = "Filter" =>
        /\ IF last.recv.present /\ ApplyPredicate(last.fn, last.recv.value)
           THEN last.res.ret = Some(last.recv.value)
           ELSE ~IsPresent(last.res.ret).flag
        /\ last.res.calls = IF last.recv.present
                            THEN <<Call(last.fn, <<last.recv.value>>)>>
                            ELSE <<>>
        /\ last.res.self = last.recv
        /\ o = last.recv

\* A present receiver was filtered out.
C9_Witness ==
    /\ last.op = "Filter"
    /\ last.recv.present
    /\ last.fn = "nonZero"
    /\ ~last.res.ret.present

\* C10: OrElse returns the value held if the receiver is present, else
\* the default; OrElseGet returns the value held without calling supplier
\* if the receiver is present, else what supplier returns, calling it
\* once; Or returns the receiver if it is present, else other as it is.
C10_Fallbacks ==
    /\ last.op = "OrElse" =>
          last.res.val = IF last.recv.present THEN last.recv.value ELSE last.argVal
    /\ last.op = "OrElseGet" =>
          IF last.recv.present
          THEN last.res.val = last.recv.value /\ last.res.calls = <<>>
          ELSE /\ last.res.val = last.argVal
               /\ last.res.calls = <<Call("supplier", <<>>)>>
    /\ last.op = "Or" =>
          IF last.recv.present
          THEN last.res.ret = last.recv /\ Equals(last.res.ret, last.recv).flag
          ELSE last.res.ret = last.argOpt

\* OrElseGet fell back to the supplier on an absent receiver.
C10_Witness ==
    /\ last.op = "OrElseGet"
    /\ ~last.recv.present
    /\ last.res.calls # <<>>
    /\ last.res.val # Zero(T)

\* C11: Equals reports two absent Optionals equal whatever their value
\* fields hold, an absent and a present one unequal in either order, and
\* two present ones equal exactly when the values they hold are equal under
\* the element type's own equality (Go's ==: for an interface the same
\* type held and the same value), so never equal when the values differ.
C11_EqualsIsValueEquality ==
    last.op = "Equals" =>
        last.res.flag = IF last.recv.present /\ last.argOpt.present
                        THEN last.recv.value = last.argOpt.value
                        ELSE last.recv.present = last.argOpt.present

\* C12: ToPointer returns nil exactly when the receiver is absent, and of a
\* present receiver a pointer to the value held; once w was written through
\* that pointer the Optional is present and holds w, and Get, OrElse,
\* String and MarshalJSON on it give what they give on Some(w).
\* FromPointer(p) is absent exactly when p is nil and otherwise present
\* with what p pointed to at the call, also after a write through p.
C12_Pointers ==
    /\ last.op = "ToPointer" =>
          /\ last.res.flag = last.recv.present
          /\ last.recv.present => last.res.val = last.recv.value
    /\ written.set =>
          /\ o = Some(written.val)
          /\ last.op = "Get" => last.res.val = written.val /\ ~last.res.panicked
          /\ last.op = "OrElse" => last.res.val = written.val
          /\ last.op \in {"Get", "OrElse", "String", "MarshalJSON"} =>
                Seen(last.res) = Seen(Replay(last, Some(written.val), heap))
    /\ last.op = "FromPointer" =>
          /\ ~last.res.ret.present <=> last.argPtr.nil
          /\ ~last.argPtr.nil => last.res.ret = Some(last.argPtr.target)
    /\ last.op = "*ptr = w" => last.res.ret = Some(last.argVal)

\* A value was written through the pointer ToPointer returned, and
\* MarshalJSON then encoded it.
C12_Witness ==
    /\ written.set
    /\ last.op = "MarshalJSON"
    /\ written.val # Zero(T)
    /\ last.res.out # NullLit
    /\ buf.out = last.res.out

\* C13: every step that is a call of a method or function other than
\* UnmarshalJSON leaves o, the receiver or the Optional passed, and the
\* strings pointed to as they were, the Outcome saying so too; and an
\* Optional that Or, Zip, Map, FlatMap or Filter returned holds, after a
\* following UnmarshalJSON on o, the value and the string pointed to that
\* it held before.
C13_Frame ==
    [][/\ last'.op \in ReadOps =>
             /\ o' = o
             /\ heap' = heap
             /\ last'.recv = o
             /\ last'.res.self = o
       /\ (last.op \in ReturnsFromInput /\ last'.op = "UnmarshalJSON") =>
             Content(last.res.ret.value, heap') = Content(last.res.ret.value, heap)
      ]_vars

\* UnmarshalJSON replaced the non-nil *string of a present o by another
\* while the caller held the Optional that Or or Filter had made of o.
C13_Witness ==
    /\ last.op = "UnmarshalJSON"
    /\ last.held
    /\ T = "ptr"
    /\ last.recv.present /\ last.recv.value.n # 0
    /\ last.res.err = "nil"
    /\ o.present /\ o.value # last.recv.value

\* Two Optionals no caller can tell apart: both absent, or both present
\* with the same value.
Same(a, b) == a.present = b.present /\ (a.present => a.value = b.value)

\* C14: an absent Optional gives, whatever its value field holds, what
\* None[T]() gives: a call of any method or function but UnmarshalJSON on
\* an absent receiver has the results, the panic and the callback
\* invocations that the same call on None[T]() has, and Equals and Or
\* treat an absent argument with any value field as they treat None[T]().
C14_ReadIsolation ==
    /\ (last.op \in ReadOps /\ ~last.recv.present) =>
          Seen(last.res) = Seen(Replay(last, None(T), heap))
    /\ \A v \in Values(T, heap) :
          LET stale == [value |-> v, present |-> FALSE]
          IN /\ Equals(o, stale).flag = Equals(o, None(T)).flag
             /\ Same(Or(o, stale).ret, Or(o, None(T)).ret)

\* Equals found an absent receiver whose value field is not zero equal to
\* None[T]().
C14_Witness ==
    /\ last.op = "Equals"
    /\ ~last.recv.present
    /\ last.recv.value # Zero(T)
    /\ last.argOpt = None(T)
    /\ last.res.flag

\* C15: json.Marshal gives the bytes MarshalJSON gives, and fails exactly
\* when MarshalJSON fails, whether it is handed the Optional by value or by
\* pointer: Some(42) encodes as 42 and None[int]() as null in both modes.
C15_SameBytesBothModes ==
    last.op = "json.Marshal" =>
        /\ last.res.out = MarshalJSON(last.recv, heap).out
        /\ (last.res.err = "nil") = (MarshalJSON(last.recv, heap).err = "nil")
====
